---- MODULE Spec2Model ----
(***************************************************************************)
(* Model of the FigmaAI plugin (packages/plugin/src/index.ts): the         *)
(* submit-text handler, the acquisition of a design specification from the *)
(* server, the recursive renderer createFigmaElement and the fallback      *)
(* design, together with the host (Figma) objects they act on: the page,   *)
(* the viewport, the font loader and the notifications; and of the server  *)
(* (unnamed/part_000): the POST /generate-design route and the cleaning    *)
(* and parsing of the backend's output.                                    *)
(*                                                                         *)
(* Strings are TLA+ strings (sequences of characters: Len, \o and SubSeq   *)
(* act on them as length, concatenation and substring do in the source).   *)
(* Colours are {r,g,b} triples in hundredths (0.95 is 95).                 *)
(* A JavaScript optional field that is absent is a field missing from the  *)
(* record's DOMAIN.                                                        *)
(***************************************************************************)
EXTENDS Integers, Sequences, FiniteSets, TLC

VARIABLES
  pc,              \* pc[r]: where handler invocation r stands
  msg,             \* msg[r]: the message the handler was invoked with
  designResponse,  \* designResponse[r]: the resolved specification (index.ts:198)
  idx,             \* idx[r]: position of the for-of loop over designResponse.elements
  ctx,             \* ctx[r]: "main" (try of lines 195-223) or "last" (try of lines 229-233)
  stack,           \* stack[r]: the pending createFigmaElement calls, innermost last
  calls,           \* calls[r]: every createFigmaElement call made, with its outcome
  nextId,          \* nextId[r]: number of host nodes created by r so far
  log,             \* log[r]: the host calls made by r, in order
  page,            \* figma.currentPage.children
  viewport,        \* the nodes figma.viewport was last asked to show (their ids)
  fetches,         \* fetches[r]: number of backend calls made by r
  faults,          \* faults[r]: what went wrong for r so far
  server           \* the backend server's handling of one POST /generate-design

vars == <<pc, msg, designResponse, idx, ctx, stack, calls, nextId, log, page,
          viewport, fetches, faults, server>>

----------------------------------------------------------------------------
(* Bounds of the model *)

NumReqs == 2        \* handler invocations the model tracks
MaxPromptLen == 104 \* the longest prompt tried
MaxFaults == 1      \* things that go wrong while requests overlap

Reqs == 1..NumReqs

(* Program constants *)

TruncateAt == 100   \* prompt.length > 100 ? prompt.substring(0, 100) + '...'
BoldAbove == 500    \* element.fontWeight > 500

----------------------------------------------------------------------------
(* Values *)

Color(r, g, b) == [r |-> r, g |-> g, b |-> b]

Solid(r, g, b) == [type |-> "SOLID", color |-> Color(r, g, b)]

Has(rec, field) == field \in DOMAIN rec

\* JavaScript truthiness of an optional numeric field
Truthy(rec, field) == Has(rec, field) /\ rec[field] # 0

RECURSIVE Rep(_)
Rep(n) == IF n = 0 THEN "" ELSE Rep(n - 1) \o "a"

----------------------------------------------------------------------------
(* createFallbackDesign, index.ts:137-191 (the server holds the same       *)
(* function, unnamed/part_000:41-95)                                       *)

\* index.ts:168, the template literal of the Description element
DescriptionText_NoTruncation(prompt) == "Based on: \"" \o prompt \o "\""

DescriptionText(prompt) ==
  "Based on: \""
    \o (IF Len(prompt) > TruncateAt
          THEN SubSeq(prompt, 1, TruncateAt) \o "..."
          ELSE prompt)
    \o "\""

TitleElement ==
  [type |-> "text", x |-> 20, y |-> 20, width |-> 360, height |-> 40,
   name |-> "Title", text |-> "AI Design Generated", fontSize |-> 24,
   fontWeight |-> 600, fills |-> <<Solid(20, 20, 20)>>]

DescriptionElement(prompt) ==
  [type |-> "text", x |-> 20, y |-> 80, width |-> 360, height |-> 60,
   name |-> "Description", text |-> DescriptionText(prompt), fontSize |-> 14,
   fontWeight |-> 400, fills |-> <<Solid(40, 40, 40)>>]

ContentAreaElement ==
  [type |-> "rectangle", x |-> 20, y |-> 160, width |-> 360, height |-> 120,
   name |-> "Content Area", fills |-> <<Solid(100, 100, 100)>>]

FallbackTheme ==
  [primaryColor |-> Color(20, 40, 80), secondaryColor |-> Color(60, 60, 60),
   backgroundColor |-> Color(95, 95, 95)]

FallbackChildren_Swapped(prompt) ==
  <<DescriptionElement(prompt), TitleElement, ContentAreaElement>>

FallbackChildren(prompt) ==
  <<TitleElement, DescriptionElement(prompt), ContentAreaElement>>

createFallbackDesign(prompt) ==
  [elements |->
     << [type |-> "frame", x |-> 0, y |-> 0, width |-> 400, height |-> 300,
         name |-> "Fallback Design", fills |-> <<Solid(95, 95, 95)>>,
         children |-> FallbackChildren(prompt)] >>,
   theme |-> FallbackTheme]

----------------------------------------------------------------------------
(* What the user may type and what the server may answer.  The plugin      *)
(* accepts whatever JSON the server sends as a DesignResponse              *)
(* (index.ts:54-60), so the answers include specifications the type        *)
(* DesignElement does not describe.                                        *)

Prompts ==
  {"", "Create a modern login form", Rep(TruncateAt), Rep(TruncateAt + 1),
   Rep(MaxPromptLen)}

\* a prompt one character longer than what the Description shows
LongPrompt == Rep(TruncateAt + 1)

Messages ==
  [type : {"submit-text"}, text : Prompts] \cup {[type |-> "close", text |-> ""]}

\* the example of the server's system prompt, unnamed/part_000:120-149
LoginForm ==
  [elements |->
     << [type |-> "frame", x |-> 50, y |-> 50, width |-> 300, height |-> 400,
         name |-> "Login Form", fills |-> <<Solid(98, 98, 98)>>,
         children |->
           << [type |-> "text", x |-> 20, y |-> 20, width |-> 260, height |-> 30,
               name |-> "Title", text |-> "Login", fontSize |-> 24] >>] >>,
   theme |-> [primaryColor |-> Color(20, 40, 80),
              secondaryColor |-> Color(60, 60, 60),
              backgroundColor |-> Color(98, 98, 98)]]

\* roots of every kind: a bold text, a frame with three children (a bold
\* text, an ellipse that carries children, a nested frame holding a text),
\* an ellipse, an element of a type outside the enumeration, a bare frame
Mixed ==
  [elements |->
     << [type |-> "text", x |-> 0, y |-> 0, width |-> 80, height |-> 20,
         name |-> "Heading", text |-> "Plans", fontSize |-> 18, fontWeight |-> 700],
        [type |-> "frame", x |-> 10, y |-> 30, width |-> 200, height |-> 120,
         name |-> "Card", fills |-> <<[type |-> "GRADIENT", color |-> Color(10, 20, 30)]>>,
         children |->
           << [type |-> "text", x |-> 5, y |-> 5, width |-> 60, height |-> 16,
               name |-> "Price", text |-> "Pro", fontWeight |-> 700,
               fills |-> <<Solid(0, 0, 0)>>],
              [type |-> "ellipse", x |-> 5, y |-> 30, width |-> 24, height |-> 24,
               name |-> "Avatar",
               children |->
                 << [type |-> "text", x |-> 0, y |-> 0, width |-> 10, height |-> 10,
                     name |-> "Ignored", text |-> "x"] >>],
              [type |-> "frame", x |-> 40, y |-> 30, width |-> 100, height |-> 40,
               name |-> "Row",
               children |->
                 << [type |-> "text", x |-> 0, y |-> 0, width |-> 50, height |-> 12,
                     name |-> "Label", text |-> "", fontSize |-> 0,
                     fontWeight |-> 500] >>] >>],
        [type |-> "ellipse", x |-> 0, y |-> 0, width |-> 30, height |-> 30,
         name |-> "Dot", fills |-> <<Solid(80, 10, 10)>>],
        [type |-> "polygon", x |-> 3, y |-> 4, width |-> 0, height |-> -5,
         name |-> "Star", fills |-> <<>>,
         children |->
           << [type |-> "rectangle", x |-> 0, y |-> 0, width |-> 1, height |-> 1,
               name |-> "Ignored too"] >>],
        [type |-> "frame", x |-> 0, y |-> 200, width |-> 200, height |-> 40,
         name |-> "Footer"] >>,
   theme |-> FallbackTheme]

NoElements == [elements |-> <<>>, theme |-> FallbackTheme]

NoFrames ==
  [elements |->
     << [type |-> "ellipse", x |-> 0, y |-> 0, width |-> 30, height |-> 30,
         name |-> "Dot"],
        [type |-> "line", x |-> 0, y |-> 40, width |-> 100, height |-> 0,
         name |-> "Rule"] >>,
   theme |-> FallbackTheme]

\* JSON that parses but carries no elements list
Malformed == [theme |-> FallbackTheme]

ServerData == {LoginForm, Mixed, NoElements, NoFrames, Malformed}

\* the ServerResponse bodies of index.ts:34-38 (timestamp left out: unread)
Bodies ==
  [success : {TRUE}, data : ServerData]
    \cup {[success |-> FALSE, data |-> NoElements]}

\* the statuses the server answers with: 400 when the prompt is empty
\* (unnamed/part_000:193-195), else 200 (209-213) or 500 (214-222)
Statuses(prompt) == IF prompt = "" THEN {400, 500} ELSE {200, 400, 500}

\* Response.ok
Ok(status) == status >= 200 /\ status <= 299

----------------------------------------------------------------------------
(* The host's scene nodes and the operations of createFigmaElement on them *)

None == <<0, 0>>   \* no node

Ev(op, id, to, arg) == [op |-> op, id |-> id, to |-> to, arg |-> arg]

Notify(text) == Ev("notify", None, None, text)

Regular == [family |-> "Inter", style |-> "Regular"]
Bold == [family |-> "Inter", style |-> "Bold"]

\* figma.createFrame / createRectangle / createText / createEllipse /
\* createLine: a fresh node with the host's defaults
NewNode(id, kind) ==
  [id |-> id, type |-> kind, name |-> kind, x |-> 0, y |-> 0,
   width |-> 100, height |-> 100, fills |-> <<Solid(85, 85, 85)>>,
   characters |-> "", fontSize |-> 12, fontName |-> Regular,
   children |-> <<>>]

\* the switch of index.ts:70-110: which create call each type reaches
KindOf_UnknownIsFrame(type) ==
  CASE type = "frame" -> "FRAME"
    [] type = "rectangle" -> "RECTANGLE"
    [] type = "text" -> "TEXT"
    [] type = "ellipse" -> "ELLIPSE"
    [] type = "line" -> "LINE"
    [] OTHER -> "FRAME"

KindOf(type) ==
  CASE type = "frame" -> "FRAME"
    [] type = "rectangle" -> "RECTANGLE"
    [] type = "text" -> "TEXT"
    [] type = "ellipse" -> "ELLIPSE"
    [] type = "line" -> "LINE"
    [] OTHER -> "RECTANGLE"

Resize(n, w, h) == [n EXCEPT !.width = w, !.height = h]

\* 'fills' in node: every node kind the switch creates has fills
HasFillsProperty(n) == n.type \in {"FRAME", "RECTANGLE", "TEXT", "ELLIPSE", "LINE"}

\* index.ts:119-122
SolidFills(fills) ==
  [i \in DOMAIN fills |-> [type |-> "SOLID", color |-> fills[i].color]]

AppliesFills(e, n) == Has(e, "fills") /\ HasFillsProperty(n)

\* index.ts:112-123: name, x, y and fills
Common(e, n) ==
  LET named == [n EXCEPT !.name = e.name, !.x = e.x, !.y = e.y]
  IN  IF AppliesFills(e, n)
        THEN [named EXCEPT !.fills = SolidFills(e.fills)]
        ELSE named

CommonEvents(e, n) ==
  <<Ev("setName", n.id, None, e.name), Ev("setX", n.id, None, ""),
    Ev("setY", n.id, None, "")>>
    \o (IF AppliesFills(e, n) THEN <<Ev("setFills", n.id, None, "")>> ELSE <<>>)

\* node.resize(...) followed by lines 112-123
Finish(e, n) == Common(e, Resize(n, e.width, e.height))

FinishEvents(e, n) == <<Ev("resize", n.id, None, "")>> \o CommonEvents(e, n)

\* index.ts:83-86 (runs once the Regular font is loaded)
SetCharacters(e, n) ==
  LET typed == [n EXCEPT !.characters = IF Has(e, "text") THEN e.text ELSE ""]
  IN  IF Truthy(e, "fontSize")
        THEN [typed EXCEPT !.fontSize = e.fontSize]
        ELSE typed

SetCharactersEvents(e, n) ==
  <<Ev("setCharacters", n.id, None, "")>>
    \o (IF Truthy(e, "fontSize") THEN <<Ev("setFontSize", n.id, None, "")>> ELSE <<>>)

\* index.ts:88
WantsBold(e) == Has(e, "fontWeight") /\ e.fontWeight # 0 /\ e.fontWeight > BoldAbove

\* index.ts:126
RendersChildren_AnyType(e) == Has(e, "children")

RendersChildren(e) == Has(e, "children") /\ e.type = "frame"

\* index.ts:129
AppendChild_Prepend(parent, child) ==
  [parent EXCEPT !.children = <<child>> \o parent.children]

AppendChild(parent, child) ==
  [parent EXCEPT !.children = Append(parent.children, child)]

\* index.ts:212
InsertsIntoPage_Always(e) == TRUE

InsertsIntoPage(e) == e.type = "frame"

\* for (const element of designResponse.elements): the list must be there
Iterable(d) == Has(d, "elements")

----------------------------------------------------------------------------
(* The server: texts, src/unnamed/part_000:159-171 *)

(***************************************************************************)
(* The backend's output is a sequence of characters, each a one-character  *)
(* string; BT stands for the backtick, which a string literal here cannot  *)
(* hold.                                                                   *)
(***************************************************************************)
BT == "BT"

Chars(s) == [i \in 1..Len(s) |-> SubSeq(s, i, i)]

Fence == <<BT, BT, BT>>

FenceJson == Fence \o Chars("json")

\* the characters String.prototype.trim removes, of those the model writes
TrimSpace == {" ", "\t", "\n", "\r", "\f"}

\* the characters JSON.parse skips around a value: the form feed is none
JsonSpace == {" ", "\t", "\n", "\r"}

RECURSIVE StripLeft(_, _)
StripLeft(text, space) ==
  IF text # <<>> /\ Head(text) \in space
    THEN StripLeft(Tail(text), space)
    ELSE text

RECURSIVE StripRight(_, _)
StripRight(text, space) ==
  IF text # <<>> /\ text[Len(text)] \in space
    THEN StripRight(SubSeq(text, 1, Len(text) - 1), space)
    ELSE text

Strip(text, space) == StripRight(StripLeft(text, space), space)

StartsWith(text, prefix) ==
  /\ Len(text) >= Len(prefix)
  /\ SubSeq(text, 1, Len(prefix)) = prefix

EndsWith(text, suffix) ==
  /\ Len(text) >= Len(suffix)
  /\ SubSeq(text, Len(text) - Len(suffix) + 1, Len(text)) = suffix

\* text.substring(from) and text.substring(0, to)
Substring(text, from, to) == SubSeq(text, from + 1, to)

\* the cleaning without the third test (lines 167-169)
Clean_KeepTrailing(text) ==
  LET trimmed == Strip(text, TrimSpace)
      noJson == IF StartsWith(trimmed, FenceJson)
                  THEN Substring(trimmed, 7, Len(trimmed))
                  ELSE trimmed
  IN  IF StartsWith(noJson, Fence)
        THEN Substring(noJson, 3, Len(noJson))
        ELSE noJson

\* lines 160-169: trim, then three tests one after the other, each on what
\* the one before left
Clean(text) ==
  LET trimmed == Strip(text, TrimSpace)
      noJson == IF StartsWith(trimmed, FenceJson)
                  THEN Substring(trimmed, 7, Len(trimmed))
                  ELSE trimmed
      noFence == IF StartsWith(noJson, Fence)
                   THEN Substring(noJson, 3, Len(noJson))
                   ELSE noJson
  IN  IF EndsWith(noFence, Fence)
        THEN Substring(noFence, 0, Len(noFence) - 3)
        ELSE noFence

\* the JSON documents the backend of the model writes, and what they denote
EmptyDocument == Chars("{\"elements\":[]}")

FrameDocument == Chars("{\"elements\":[{\"type\":\"frame\",\"name\":\"Card\"}]}")

Documents == {EmptyDocument, FrameDocument}

Denotes(document) ==
  IF document = EmptyDocument
    THEN [elements |-> <<>>]
    ELSE [elements |-> <<[type |-> "frame", name |-> "Card"]>>]

\* JSON.parse (line 171) on the texts of the model: a document with JSON
\* white space around it parses to what it denotes, everything else throws
JsonParse(text) ==
  LET document == Strip(text, JsonSpace)
  IN  IF document \in Documents
        THEN [ok |-> TRUE, value |-> Denotes(document)]
        ELSE [ok |-> FALSE, value |-> [elements |-> <<>>]]

\* lines 160-171: what generateDesign makes of the backend's output
ParseOutput(text) == JsonParse(Clean(text))

\* what the backend writes between the fences, if any
Contents ==
  {pad \o content : pad \in {<<>>, Chars("\n"), Chars("\f")},
                    content \in Documents \cup {Chars("Sorry"), <<>>}}

\* the backend's outputs: white space, up to two opening markers, the
\* content, white space, up to two closing fences, white space
BackendOutputs ==
  {lead \o open \o second \o content \o pad \o close \o trail :
     lead \in {<<>>, Chars("\n")},
     open \in {<<>>, FenceJson, Fence},
     second \in {<<>>, Fence},
     content \in Contents,
     pad \in {<<>>, Chars("\n")},
     close \in {<<>>, Fence, Fence \o Fence},
     trail \in {<<>>, Chars("\n")}}

----------------------------------------------------------------------------
(* The server: requests and responses, src/unnamed/part_000:188-224 *)

\* the prompt field of a request body: what kind of value it is and, for a
\* string, the string
PromptField(kind, text) == [kind |-> kind, text |-> text]

PromptFields ==
  {PromptField("undefined", ""), PromptField("null", ""),
   PromptField("number", "42"), PromptField("number", "0"),
   PromptField("array", "")}
    \cup {PromptField("string", p) : p \in Prompts}

\* request bodies: no JSON at all, the JSON value null, or a JSON object
RequestBodies ==
  {[json |-> "invalid", prompt |-> PromptField("undefined", "")],
   [json |-> "null", prompt |-> PromptField("undefined", "")]}
    \cup {[json |-> "object", prompt |-> f] : f \in PromptFields}

\* await c.req.json() rejects (line 190), or null is destructured (line 191)
Unreadable(body) == body.json \in {"invalid", "null"}

\* !prompt, line 193
Falsy(field) ==
  \/ field.kind \in {"undefined", "null"}
  \/ field.kind = "number" /\ field.text = "0"
  \/ field.kind = "string" /\ field.text = ""

\* the test of line 193, inverted
Accepts(field) == ~Falsy(field) /\ field.kind = "string"

ApiKeys == {"", "AIza"}

NoResponse == [status |-> 0, body |-> [error |-> ""]]

\* line 194
BadRequest ==
  [status |-> 400, body |-> [error |-> "Prompt is required and must be a string"]]

\* lines 214-222 (the message field is left out)
InternalError == [status |-> 500, body |-> [error |-> "Internal server error"]]

\* lines 209-213 (the timestamp is left out)
Generated(data) == [status |-> 200, body |-> [success |-> TRUE, data |-> data]]

\* lines 204-207 and 209-213: generateDesign threw
AfterGenerateError(prompt) == Generated(createFallbackDesign(prompt))

ServerOff ==
  [pc |-> "off", apiKey |-> "", body |-> CHOOSE b \in RequestBodies : b.json = "invalid",
   raw |-> <<>>, backendCalls |-> 0, failure |-> "", response |-> NoResponse]

----------------------------------------------------------------------------
(* State *)

\* a node that was on the page before any request of the model
Existing == [NewNode(None, "FRAME") EXCEPT !.name = "Existing"]

\* one message is delivered to the handler (invocation 1); the other
\* invocations stay "off"
Init ==
  /\ pc = [r \in Reqs |-> IF r = 1 THEN "idle" ELSE "off"]
  /\ msg = [r \in Reqs |-> [type |-> "", text |-> ""]]
  /\ designResponse = [r \in Reqs |-> NoElements]
  /\ idx = [r \in Reqs |-> 0]
  /\ ctx = [r \in Reqs |-> "main"]
  /\ stack = [r \in Reqs |-> <<>>]
  /\ calls = [r \in Reqs |-> <<>>]
  /\ nextId = [r \in Reqs |-> 0]
  /\ log = [r \in Reqs |-> <<>>]
  /\ page \in {<<>>, <<Existing>>}
  /\ viewport = <<>>
  /\ fetches = [r \in Reqs |-> 0]
  /\ faults = [r \in Reqs |-> {}]
  /\ server = ServerOff

Top(r) == stack[r][Len(stack[r])]

Fault(r, what) == faults' = [faults EXCEPT ![r] = @ \cup {what}]

Goto(r, label) == pc' = [pc EXCEPT ![r] = label]

Logged(r, events) == log' = [log EXCEPT ![r] = @ \o events]

Ids(nodes) == [i \in DOMAIN nodes |-> nodes[i].id]

----------------------------------------------------------------------------
(* generateDesign, index.ts:40-65, and its call, index.ts:194-206 *)

\* figma.ui.onmessage is invoked: lines 194-201 up to the await of fetch
Receive(r) ==
  /\ pc[r] = "idle"
  /\ \E m \in Messages :
       /\ msg' = [msg EXCEPT ![r] = m]
       /\ IF m.type = "submit-text"
            THEN /\ Logged(r, <<Notify("Generating design... Please wait."),
                               Ev("fetch", None, None, m.text)>>)
                 /\ fetches' = [fetches EXCEPT ![r] = @ + 1]
                 /\ Goto(r, "fetch")
            ELSE /\ Goto(r, "ignored")
                 /\ UNCHANGED <<log, fetches>>
  /\ UNCHANGED <<designResponse, idx, ctx, stack, calls, nextId, page, viewport,
                 faults>>
  /\ UNCHANGED server

\* index.ts:202-206, the catch around generateDesign: where the request
\* goes on, with which notification and which specification
AfterAcquireError_Rethrown(r) ==
  [pc |-> "outer", notes |-> <<>>, design |-> designResponse[r]]

AfterAcquireError(r) ==
  [pc |-> "loop",
   notes |-> <<Notify("Server unavailable, using fallback design")>>,
   design |-> createFallbackDesign(msg[r].text)]

\* generateDesign threw (lines 61-64 rethrow into lines 202-206)
AcquireFails(r, what) ==
  LET a == AfterAcquireError(r)
  IN  /\ Fault(r, what)
      /\ Logged(r, a.notes)
      /\ designResponse' = [designResponse EXCEPT ![r] = a.design]
      /\ idx' = [idx EXCEPT ![r] = 1]
      /\ Goto(r, a.pc)
      /\ UNCHANGED <<msg, ctx, stack, calls, nextId, page, viewport, fetches>>

\* await fetch(...) rejects (line 42)
FetchRejects(r) ==
  /\ pc[r] = "fetch"
  /\ AcquireFails(r, "fetch")
  /\ UNCHANGED server

\* await fetch(...) resolves; lines 50-52
FetchResponds(r) ==
  /\ pc[r] = "fetch"
  /\ \E status \in Statuses(msg[r].text) :
       IF Ok(status)
         THEN /\ Goto(r, "json")
              /\ UNCHANGED <<msg, designResponse, idx, ctx, stack, calls, nextId,
                             log, page, viewport, fetches, faults>>
         ELSE AcquireFails(r, "status")
  /\ UNCHANGED server

\* await response.json() rejects: the body is no JSON (line 54)
JsonRejects(r) ==
  /\ pc[r] = "json"
  /\ AcquireFails(r, "json")
  /\ UNCHANGED server

\* await response.json() resolves; lines 56-60 and the assignment of line 201
JsonResolves(r) ==
  /\ pc[r] = "json"
  /\ \E body \in Bodies :
       IF body.success
         THEN /\ designResponse' = [designResponse EXCEPT ![r] = body.data]
              /\ idx' = [idx EXCEPT ![r] = 1]
              /\ Goto(r, "loop")
              /\ UNCHANGED <<msg, ctx, stack, calls, nextId, log, page, viewport,
                             fetches, faults>>
         ELSE AcquireFails(r, "unsuccessful")
  /\ UNCHANGED server

----------------------------------------------------------------------------
(* createFigmaElement, index.ts:67-134 *)

\* lines 70-110 up to the first await: a text node is created and left
\* waiting for the Regular font; any other node is created, resized and
\* given name, x, y and fills (lines 112-123), which brings the call to its
\* children loop
Construct_CharactersFirst(e, fresh) ==
  IF e.type = "text"
    THEN [node |-> SetCharacters(e, fresh),
          events |-> <<Ev("createNode", fresh.id, None, fresh.type)>>
                       \o SetCharactersEvents(e, fresh)
                       \o <<Ev("loadFont", fresh.id, None, "Regular")>>,
          pc |-> "loadRegular"]
    ELSE [node |-> Finish(e, fresh),
          events |-> <<Ev("createNode", fresh.id, None, fresh.type)>>
                       \o FinishEvents(e, fresh),
          pc |-> "children"]

Construct(e, fresh) ==
  IF e.type = "text"
    THEN [node |-> fresh,
          events |-> <<Ev("createNode", fresh.id, None, fresh.type),
                       Ev("loadFont", fresh.id, None, "Regular")>>,
          pc |-> "loadRegular"]
    ELSE [node |-> Finish(e, fresh),
          events |-> <<Ev("createNode", fresh.id, None, fresh.type)>>
                       \o FinishEvents(e, fresh),
          pc |-> "children"]

\* lines 83-98 once the Regular font is there: characters and fontSize, then
\* either the await of the Bold font or the rest of the node's properties
AfterRegular(e, n) ==
  LET typed == SetCharacters(e, n)
      loaded == <<Ev("fontLoaded", n.id, None, "Regular")>>
                  \o SetCharactersEvents(e, n)
  IN  IF WantsBold(e)
        THEN [node |-> typed,
              events |-> loaded \o <<Ev("loadFont", n.id, None, "Bold")>>,
              pc |-> "loadBold"]
        ELSE [node |-> Finish(e, typed),
              events |-> loaded \o FinishEvents(e, typed),
              pc |-> "children"]

\* lines 91 and 97-123 once the Bold font is there
AfterBold(e, n) ==
  LET bold == [n EXCEPT !.fontName = Bold]
  IN  [node |-> Finish(e, bold),
       events |-> <<Ev("fontLoaded", n.id, None, "Bold"),
                    Ev("setFontName", n.id, None, "Bold")>>
                    \o FinishEvents(e, bold)]

\* lines 92-95 and 97-123: the Bold font is not there
AfterBoldError_Uncaught(e, n) ==
  [node |-> n, events |-> <<Ev("fontRejected", n.id, None, "Bold")>>,
   threw |-> TRUE]

AfterBoldError(e, n) ==
  [node |-> Finish(e, n),
   events |-> <<Ev("fontRejected", n.id, None, "Bold")>> \o FinishEvents(e, n),
   threw |-> FALSE]

\* a call createFigmaElement(e) made in context c, after the caller logged lg
Begin(r, e, c, lg) ==
  LET made == Construct(e, NewNode(<<r, nextId[r] + 1>>, KindOf(e.type)))
  IN  /\ nextId' = [nextId EXCEPT ![r] = @ + 1]
      /\ stack' = [stack EXCEPT ![r] =
                     Append(@, [element |-> e, node |-> made.node, next |-> 1,
                                call |-> Len(calls[r]) + 1])]
      /\ calls' = [calls EXCEPT ![r] =
                     Append(@, [element |-> e, ctx |-> c,
                                root |-> IF c = "main" THEN idx[r] ELSE 1,
                                depth |-> Len(stack[r]) + 1,
                                result |-> "running", node |-> made.node,
                                failed |-> 0])]
      /\ log' = [log EXCEPT ![r] = lg \o made.events]
      /\ Goto(r, made.pc)

\* the node of the innermost call changes
Progress(r, n) ==
  /\ stack' = [stack EXCEPT ![r][Len(stack[r])].node = n]
  /\ calls' = [calls EXCEPT ![r][Top(r).call].node = n]

\* the outcome of every pending call when an exception leaves the innermost
\* one: none of them catches it (lines 127-130 hold no try)
Thrown(r) ==
  [k \in DOMAIN calls[r] |->
     IF \E i \in DOMAIN stack[r] : stack[r][i].call = k
       THEN [calls[r][k] EXCEPT !.result = "threw",
                                !.failed = IF Top(r).call = k THEN 0 ELSE 1]
       ELSE calls[r][k]]

\* index.ts:215-217, the catch around one root element: where the loop goes on
AfterElementError_Rethrown(r) == [pc |-> "outer", idx |-> idx[r]]

AfterElementError(r) == [pc |-> "loop", idx |-> idx[r] + 1]

\* index.ts:234-237, the catch around the last resort
AfterFallbackError_Silent(r) == [pc |-> "done", notes |-> <<>>]

AfterFallbackError(r) ==
  [pc |-> "done", notes |-> <<Notify("Critical error: Please restart the plugin")>>]

\* an exception reaches the try block the handler stands in, after events
\* were logged: lines 215-217 in the main path, lines 234-237 in the last resort
Caught(r, events) ==
  IF ctx[r] = "main"
    THEN /\ Logged(r, events)
         /\ idx' = [idx EXCEPT ![r] = AfterElementError(r).idx]
         /\ Goto(r, AfterElementError(r).pc)
    ELSE /\ Logged(r, events \o AfterFallbackError(r).notes)
         /\ Goto(r, AfterFallbackError(r).pc)
         /\ UNCHANGED idx

\* an exception leaves the innermost createFigmaElement call
Raise(r, events) ==
  /\ calls' = [calls EXCEPT ![r] = Thrown(r)]
  /\ stack' = [stack EXCEPT ![r] = <<>>]
  /\ Caught(r, events)

\* await figma.loadFontAsync(Regular) resolves (line 82)
RegularLoaded(r) ==
  /\ pc[r] = "loadRegular"
  /\ LET after == AfterRegular(Top(r).element, Top(r).node)
     IN  /\ Progress(r, after.node)
         /\ Logged(r, after.events)
         /\ Goto(r, after.pc)
  /\ UNCHANGED <<msg, designResponse, idx, ctx, nextId, page, viewport, fetches,
                 faults>>
  /\ UNCHANGED server

\* await figma.loadFontAsync(Regular) rejects (line 82)
RegularRejected(r) ==
  /\ pc[r] = "loadRegular"
  /\ Raise(r, <<Ev("fontRejected", Top(r).node.id, None, "Regular")>>)
  /\ Fault(r, "font")
  /\ UNCHANGED <<msg, designResponse, ctx, nextId, page, viewport, fetches>>
  /\ UNCHANGED server

\* await figma.loadFontAsync(Bold) resolves (line 90)
BoldLoaded(r) ==
  /\ pc[r] = "loadBold"
  /\ LET after == AfterBold(Top(r).element, Top(r).node)
     IN  /\ Progress(r, after.node)
         /\ Logged(r, after.events)
         /\ Goto(r, "children")
  /\ UNCHANGED <<msg, designResponse, idx, ctx, nextId, page, viewport, fetches,
                 faults>>
  /\ UNCHANGED server

\* await figma.loadFontAsync(Bold) rejects (line 90)
BoldRejected(r) ==
  /\ pc[r] = "loadBold"
  /\ LET after == AfterBoldError(Top(r).element, Top(r).node)
     IN  IF after.threw
           THEN /\ Raise(r, after.events)
                /\ UNCHANGED <<msg, designResponse, ctx, nextId, page, viewport,
                               fetches>>
           ELSE /\ Progress(r, after.node)
                /\ Logged(r, after.events)
                /\ Goto(r, "children")
                /\ UNCHANGED <<msg, designResponse, idx, ctx, nextId, page,
                               viewport, fetches>>
  /\ Fault(r, "bold")
  /\ UNCHANGED server

\* lines 126-128: the next child is rendered
Descend(r) ==
  /\ pc[r] = "children"
  /\ RendersChildren(Top(r).element)
  /\ Top(r).next <= Len(Top(r).element.children)
  /\ Begin(r, Top(r).element.children[Top(r).next], ctx[r], log[r])
  /\ UNCHANGED <<msg, designResponse, idx, ctx, page, viewport, fetches, faults>>
  /\ UNCHANGED server

\* line 133: the innermost call has no child left to render
Returns_Early(r) == pc[r] = "children"

Returns(r) ==
  /\ pc[r] = "children"
  /\ RendersChildren(Top(r).element) => Top(r).next > Len(Top(r).element.children)

Returned(r) == [calls[r] EXCEPT ![Top(r).call].result = "returned"]

\* lines 128-129: a child call returns and its node is appended to the frame
ReturnToParent(r) ==
  /\ Returns(r)
  /\ Len(stack[r]) > 1
  /\ LET child == Top(r).node
         up == Len(stack[r]) - 1
         parent == AppendChild(stack[r][up].node, child)
     IN  /\ stack' = [stack EXCEPT ![r] =
                        [SubSeq(@, 1, up) EXCEPT ![up].node = parent,
                                                 ![up].next = @ + 1]]
         /\ calls' = [calls EXCEPT ![r] =
                        [Returned(r) EXCEPT ![stack[r][up].call].node = parent]]
         /\ Logged(r, <<Ev("appendChild", child.id, parent.id, "")>>)
  /\ UNCHANGED <<pc, msg, designResponse, idx, ctx, nextId, page, viewport,
                 fetches, faults>>
  /\ UNCHANGED server

----------------------------------------------------------------------------
(* figma.ui.onmessage, index.ts:193-240: render-all, focus, outer failure *)

\* one designResponse shared by the invocations
DesignOf_Shared(r) == designResponse[1]

\* index.ts:198, let designResponse: each invocation of the handler has its
\* own
DesignOf(r) == designResponse[r]

\* line 209: the loop reads designResponse.elements, which is not there
LoopThrows(r) ==
  /\ pc[r] = "loop"
  /\ ~Iterable(DesignOf(r))
  /\ Fault(r, "malformed")
  /\ Goto(r, "outer")
  /\ UNCHANGED <<msg, designResponse, idx, ctx, stack, calls, nextId, log, page,
                 viewport, fetches>>
  /\ UNCHANGED server

\* lines 209-211: the next root element is rendered
LoopCall(r) ==
  /\ pc[r] = "loop"
  /\ Iterable(DesignOf(r))
  /\ idx[r] <= Len(DesignOf(r).elements)
  /\ Begin(r, DesignOf(r).elements[idx[r]], "main", log[r])
  /\ UNCHANGED <<msg, designResponse, idx, ctx, page, viewport, fetches, faults>>
  /\ UNCHANGED server

\* line 209: no root element is left
LoopEnd(r) ==
  /\ pc[r] = "loop"
  /\ Iterable(DesignOf(r))
  /\ idx[r] > Len(DesignOf(r).elements)
  /\ Goto(r, "focus")
  /\ UNCHANGED <<msg, designResponse, idx, ctx, stack, calls, nextId, log, page,
                 viewport, fetches, faults>>
  /\ UNCHANGED server

\* lines 211-214: the call for a root element returns; a frame is appended
\* to the page, and the host may refuse the append (caught at line 215)
ReturnToLoop(r) ==
  /\ Returns(r)
  /\ Len(stack[r]) = 1
  /\ ctx[r] = "main"
  /\ stack' = [stack EXCEPT ![r] = <<>>]
  /\ calls' = [calls EXCEPT ![r] = Returned(r)]
  /\ LET node == Top(r).node
     IN  IF InsertsIntoPage(Top(r).element)
           THEN \E accepted \in BOOLEAN :
                  IF accepted
                    THEN /\ page' = Append(page, node)
                         /\ Logged(r, <<Ev("pageAppend", node.id, None, "")>>)
                         /\ idx' = [idx EXCEPT ![r] = @ + 1]
                         /\ Goto(r, "loop")
                         /\ UNCHANGED faults
                    ELSE /\ Caught(r, <<Ev("pageAppendFailed", node.id, None, "")>>)
                         /\ Fault(r, "append")
                         /\ UNCHANGED page
           ELSE /\ idx' = [idx EXCEPT ![r] = @ + 1]
                /\ Goto(r, "loop")
                /\ UNCHANGED <<page, log, faults>>
  /\ UNCHANGED <<msg, designResponse, ctx, nextId, viewport, fetches>>
  /\ UNCHANGED server

\* index.ts:221, the target of the focus of the main path
FocusTarget_Created(pg) == Ids(SelectSeq(pg, LAMBDA n : n.id # None))

FocusTarget(pg) == Ids(pg)

\* lines 221-223: the viewport is focused on the page's children and success
\* is notified; the host may refuse the focus (caught at line 224)
Focus(r) ==
  /\ pc[r] = "focus"
  /\ \E accepted \in BOOLEAN :
       IF accepted
         THEN /\ viewport' = FocusTarget(page)
              /\ Logged(r, <<Ev("focus", None, None, "page"),
                             Notify("Design generated successfully!")>>)
              /\ Goto(r, "done")
              /\ UNCHANGED faults
         ELSE /\ Fault(r, "focus")
              /\ Goto(r, "outer")
              /\ UNCHANGED <<viewport, log>>
  /\ UNCHANGED <<msg, designResponse, idx, ctx, stack, calls, nextId, page,
                 fetches>>
  /\ UNCHANGED server

\* index.ts:230-231, what the last resort renders
LastResortElement(r) == createFallbackDesign(msg[r].text).elements[1]

\* lines 224-231: the outer catch notifies the error and renders the first
\* root element of a fresh fallback design
Outer(r) ==
  /\ pc[r] = "outer"
  /\ ctx' = [ctx EXCEPT ![r] = "last"]
  /\ Begin(r, LastResortElement(r), "last",
           Append(log[r], Notify("Error generating design. Please try again.")))
  /\ UNCHANGED <<msg, designResponse, idx, page, viewport, fetches, faults>>
  /\ UNCHANGED server

\* the last resort announcing success after its focus
LastResortEvents_Success(node) ==
  <<Ev("pageAppend", node.id, None, ""), Ev("focus", node.id, None, "node"),
    Notify("Design generated successfully!")>>

\* lines 232-233, the host calls of a last resort that succeeds
LastResortEvents(node) ==
  <<Ev("pageAppend", node.id, None, ""), Ev("focus", node.id, None, "node")>>

\* lines 231-233: the fallback frame is appended to the page and focused;
\* the host may refuse either (caught at line 234)
ReturnToLastResort(r) ==
  /\ Returns(r)
  /\ Len(stack[r]) = 1
  /\ ctx[r] = "last"
  /\ stack' = [stack EXCEPT ![r] = <<>>]
  /\ calls' = [calls EXCEPT ![r] = Returned(r)]
  /\ LET node == Top(r).node
     IN  \E outcome \in {"ok", "append refused", "focus refused"} :
           /\ page' = IF outcome = "append refused" THEN page ELSE Append(page, node)
           /\ viewport' = IF outcome = "ok" THEN <<node.id>> ELSE viewport
           /\ CASE outcome = "ok" ->
                     /\ Logged(r, LastResortEvents(node))
                     /\ Goto(r, "done")
                     /\ UNCHANGED faults
                [] outcome = "append refused" ->
                     /\ Caught(r, <<Ev("pageAppendFailed", node.id, None, "")>>)
                     /\ Fault(r, "append")
                [] outcome = "focus refused" ->
                     /\ Caught(r, <<Ev("pageAppend", node.id, None, "")>>)
                     /\ Fault(r, "focus")
  /\ UNCHANGED <<msg, designResponse, idx, ctx, nextId, fetches>>
  /\ UNCHANGED server

----------------------------------------------------------------------------

Step(r) ==
  \/ Receive(r)
  \/ FetchRejects(r)
  \/ FetchResponds(r)
  \/ JsonRejects(r)
  \/ JsonResolves(r)
  \/ LoopThrows(r)
  \/ LoopCall(r)
  \/ LoopEnd(r)
  \/ RegularLoaded(r)
  \/ RegularRejected(r)
  \/ BoldLoaded(r)
  \/ BoldRejected(r)
  \/ Descend(r)
  \/ ReturnToParent(r)
  \/ ReturnToLoop(r)
  \/ Focus(r)
  \/ Outer(r)
  \/ ReturnToLastResort(r)

Next == \E r \in Reqs : Step(r)

Spec == Init /\ [][Next]_vars

\* every awaited call of a request settles: a request that can take a step
\* takes one
SpecLive == Spec /\ \A r \in Reqs : WF_vars(Step(r))

\* Overlapping requests: two invocations receive a submit-text message
\* each, with a prompt of its own, on an empty page, and take their steps
\* in any order.  Of the things that may go wrong, MaxFaults happen among
\* the invocations together.
ConcPrompt(r) == IF r = 1 THEN "Create a modern login form" ELSE LongPrompt

Overlap ==
  /\ \A r \in Reqs : msg[r].type = "submit-text" => msg[r].text = ConcPrompt(r)
  /\ Cardinality({rf \in Reqs \X UNION {faults[r] : r \in Reqs} :
                    rf[2] \in faults[rf[1]]}) <= MaxFaults

InitConc ==
  /\ pc = [r \in Reqs |-> IF r <= 2 THEN "idle" ELSE "off"]
  /\ msg = [r \in Reqs |-> [type |-> "", text |-> ""]]
  /\ designResponse = [r \in Reqs |-> NoElements]
  /\ idx = [r \in Reqs |-> 0]
  /\ ctx = [r \in Reqs |-> "main"]
  /\ stack = [r \in Reqs |-> <<>>]
  /\ calls = [r \in Reqs |-> <<>>]
  /\ nextId = [r \in Reqs |-> 0]
  /\ log = [r \in Reqs |-> <<>>]
  /\ page = <<>>
  /\ viewport = <<>>
  /\ fetches = [r \in Reqs |-> 0]
  /\ faults = [r \in Reqs |-> {}]
  /\ server = ServerOff

StepConc(r) ==
  \/ Receive(r) /\ Overlap'
  \/ FetchRejects(r) /\ Overlap'
  \/ FetchResponds(r) /\ Overlap'
  \/ JsonRejects(r) /\ Overlap'
  \/ JsonResolves(r) /\ Overlap'
  \/ LoopThrows(r) /\ Overlap'
  \/ LoopCall(r) /\ Overlap'
  \/ LoopEnd(r) /\ Overlap'
  \/ RegularLoaded(r) /\ Overlap'
  \/ RegularRejected(r) /\ Overlap'
  \/ BoldLoaded(r) /\ Overlap'
  \/ BoldRejected(r) /\ Overlap'
  \/ Descend(r) /\ Overlap'
  \/ ReturnToParent(r) /\ Overlap'
  \/ ReturnToLoop(r) /\ Overlap'
  \/ Focus(r) /\ Overlap'
  \/ Outer(r) /\ Overlap'
  \/ ReturnToLastResort(r) /\ Overlap'

NextConc == \E r \in Reqs : StepConc(r)

SpecConc == InitConc /\ [][NextConc]_vars

----------------------------------------------------------------------------
(* The server's POST /generate-design, src/unnamed/part_000:97-177, 188-224 *)

PluginIdle == UNCHANGED <<pc, msg, designResponse, idx, ctx, stack, calls,
                          nextId, log, page, viewport, fetches, faults>>

\* the server waits for one request, with or without an API key in its
\* environment; no plugin request runs
InitServer ==
  /\ pc = [r \in Reqs |-> "off"]
  /\ msg = [r \in Reqs |-> [type |-> "", text |-> ""]]
  /\ designResponse = [r \in Reqs |-> NoElements]
  /\ idx = [r \in Reqs |-> 0]
  /\ ctx = [r \in Reqs |-> "main"]
  /\ stack = [r \in Reqs |-> <<>>]
  /\ calls = [r \in Reqs |-> <<>>]
  /\ nextId = [r \in Reqs |-> 0]
  /\ log = [r \in Reqs |-> <<>>]
  /\ page = <<>>
  /\ viewport = <<>>
  /\ fetches = [r \in Reqs |-> 0]
  /\ faults = [r \in Reqs |-> {}]
  /\ server \in {[ServerOff EXCEPT !.pc = "listening", !.apiKey = key] :
                   key \in ApiKeys}

Responds(response, failure) ==
  server' = [server EXCEPT !.pc = "done", !.response = response,
                           !.failure = failure]

\* lines 190-191 throw into the catch of lines 214-222
PostUnreadable ==
  /\ server.pc = "listening"
  /\ \E body \in RequestBodies :
       /\ Unreadable(body)
       /\ server' = [server EXCEPT !.pc = "done", !.body = body,
                                   !.response = InternalError]
  /\ PluginIdle

\* lines 190-195
PostRejected ==
  /\ server.pc = "listening"
  /\ \E body \in RequestBodies :
       /\ ~Unreadable(body)
       /\ ~Accepts(body.prompt)
       /\ server' = [server EXCEPT !.pc = "done", !.body = body,
                                   !.response = BadRequest]
  /\ PluginIdle

\* lines 190-202: the prompt is a non-empty string, generateDesign is called
PostAccepted ==
  /\ server.pc = "listening"
  /\ \E body \in RequestBodies :
       /\ ~Unreadable(body)
       /\ Accepts(body.prompt)
       /\ server' = [server EXCEPT !.pc = "generate", !.body = body]
  /\ PluginIdle

\* lines 100-104: no API key, generateDesign throws before any backend call
NoApiKey ==
  /\ server.pc = "generate"
  /\ server.apiKey = ""
  /\ Responds(AfterGenerateError(server.body.prompt.text), "key")
  /\ PluginIdle

\* lines 100-157 up to the await of generateText
CallBackend ==
  /\ server.pc = "generate"
  /\ server.apiKey # ""
  /\ server' = [server EXCEPT !.pc = "backend", !.backendCalls = @ + 1]
  /\ PluginIdle

\* await generateText(...) rejects (line 151)
BackendRejects ==
  /\ server.pc = "backend"
  /\ Responds(AfterGenerateError(server.body.prompt.text), "backend")
  /\ PluginIdle

\* await generateText(...) resolves: lines 159-172, then 203 and 209-213, or
\* JSON.parse throws into lines 173-176 and 204-213
BackendAnswers ==
  /\ server.pc = "backend"
  /\ \E text \in BackendOutputs :
       LET parsed == ParseOutput(text)
           answer == IF parsed.ok
                       THEN Generated(parsed.value)
                       ELSE AfterGenerateError(server.body.prompt.text)
       IN  server' = [server EXCEPT !.pc = "done", !.raw = text,
                                    !.response = answer,
                                    !.failure = IF parsed.ok THEN "" ELSE "parse"]
  /\ PluginIdle

NextServer ==
  \/ PostUnreadable
  \/ PostRejected
  \/ PostAccepted
  \/ NoApiKey
  \/ CallBackend
  \/ BackendRejects
  \/ BackendAnswers

SpecServer == InitServer /\ [][NextServer]_vars

----------------------------------------------------------------------------
(* Vocabulary of the properties *)

Success == Notify("Design generated successfully!")
Unavailable == Notify("Server unavailable, using fallback design")
Error == Notify("Error generating design. Please try again.")
Critical == Notify("Critical error: Please restart the plugin")

InLog(r, event) == \E i \in DOMAIN log[r] : log[r][i] = event

\* the ways acquisition fails: fetch rejects, status not 2xx, body no JSON,
\* success false
AcquireFaults == {"fetch", "status", "json", "unsuccessful"}

UsedFallback(r) == faults[r] \cap AcquireFaults # {}

Submitted(r) == pc[r] \notin {"off", "idle", "ignored"}

\* the request has left the render-all loop of lines 209-218
LeftLoop(r) == pc[r] \in {"focus", "outer", "done"} \/ ctx[r] = "last"

IsRootCall(c, context) == c.ctx = context /\ c.depth = 1

\* the createFigmaElement calls the handler itself made in a context
RootCalls(r, context) == SelectSeq(calls[r], LAMBDA c : IsRootCall(c, context))

OnPage(id) == \E i \in DOMAIN page : page[i].id = id

\* the nodes of the page that request r put there
Inserted(r) == SelectSeq(page, LAMBDA n : n.id[1] = r)

\* the nodes of the page that the render-all loop of request r put there
InsertedByLoop(r) ==
  SelectSeq(page, LAMBDA n :
    \E k \in DOMAIN calls[r] : IsRootCall(calls[r][k], "main")
                               /\ calls[r][k].node.id = n.id)

\* the frame-typed roots that rendered, apart from those whose append the
\* host refused, as nodes in specification order
RenderedFrames(r) ==
  LET kept == SelectSeq(RootCalls(r, "main"), LAMBDA c :
                /\ c.result = "returned"
                /\ c.element.type = "frame"
                /\ ~InLog(r, Ev("pageAppendFailed", c.node.id, None, "")))
  IN  [i \in DOMAIN kept |-> kept[i].node]

----------------------------------------------------------------------------
(* C1: in render-all a failure while rendering one root element is caught   *)
(* and the element skipped: once the loop is left every root element of the *)
(* resolved specification has been attempted, once each and in order, and   *)
(* the frame-typed roots that rendered are on the page in specification     *)
(* order (a root whose page append the host refuses is skipped by the same  *)
(* catch).                                                                  *)
C1_SiblingsAttempted ==
  \A r \in Reqs :
    (Submitted(r) /\ Iterable(designResponse[r])) =>
      LET roots == RootCalls(r, "main")
          elements == designResponse[r].elements
      IN  /\ Len(roots) <= Len(elements)
          /\ \A i \in DOMAIN roots : roots[i].root = i /\ roots[i].element = elements[i]
          /\ LeftLoop(r) => Len(roots) = Len(elements)
          /\ InsertedByLoop(r) = RenderedFrames(r)

\* a root failed, the root before it and the frame after it were rendered,
\* the latter is on the page, and the request ended in success
C1_Witness ==
  \E r \in Reqs :
    /\ pc[r] = "done" /\ InLog(r, Success)
    /\ Len(RootCalls(r, "main")) = 5
    /\ RootCalls(r, "main")[1].result = "returned"
    /\ RootCalls(r, "main")[2].result = "threw"
    /\ RootCalls(r, "main")[5].result = "returned"
    /\ OnPage(RootCalls(r, "main")[5].node.id)

----------------------------------------------------------------------------
(* C2: rendering a frame with N children of which k fail yields the frame   *)
(* node with N - k children.  Stated of every finished call for a frame.    *)
C2_FrameSurvivesChildFailure ==
  \A r \in Reqs : \A k \in DOMAIN calls[r] :
    LET c == calls[r][k]
    IN  (c.element.type = "frame" /\ Has(c.element, "children")
         /\ c.result # "running") =>
          /\ c.result = "returned"
          /\ Len(c.node.children) = Len(c.element.children) - c.failed

----------------------------------------------------------------------------
(* C3: whichever way acquisition fails, the request takes                   *)
(* createFallbackDesign(prompt) as its specification and goes on to         *)
(* render-all with it; with nothing else failing it never stands in the     *)
(* outer catch and notifies neither the error nor the critical notice.      *)
C3_AcquireFailureFallsBack ==
  \A r \in Reqs :
    UsedFallback(r) =>
      /\ InLog(r, Unavailable)
      /\ designResponse[r].elements[1].name = "Fallback Design"
      /\ Len(designResponse[r].elements[1].children) = 3
      /\ \A i \in DOMAIN RootCalls(r, "main") :
           RootCalls(r, "main")[i].element = designResponse[r].elements[i]
      /\ faults[r] \subseteq AcquireFaults =>
           /\ ctx[r] = "main"
           /\ pc[r] \in {"loop", "loadRegular", "loadBold", "children", "focus", "done"}
           /\ ~InLog(r, Error)
           /\ ~InLog(r, Critical)
           /\ pc[r] = "done" => InLog(r, Success) /\ Len(Inserted(r)) = 1

\* the body was no JSON, nothing else failed, and the request ended with
\* the fallback frame on the page
C3_Witness ==
  \E r \in Reqs :
    /\ faults[r] = {"json"}
    /\ pc[r] = "done"
    /\ Len(Inserted(r)) = 1
    /\ Inserted(r)[1].name = "Fallback Design"

----------------------------------------------------------------------------
(* C4: every request that ends without the critical notice leaves at least  *)
(* one node it inserted on the page.                                        *)
C4_SomethingInserted ==
  \A r \in Reqs :
    (pc[r] = "done" /\ ~InLog(r, Critical)) => Len(Inserted(r)) >= 1

----------------------------------------------------------------------------
(* C5: once an error reaches the outer catch the handler makes one last-    *)
(* resort attempt: it renders the first root element of                     *)
(* createFallbackDesign(prompt) and nothing else, appends that node to the  *)
(* page and focuses the viewport on it alone; the critical notice is issued *)
(* exactly when this attempt fails; and the request, once ended, makes no   *)
(* further step, with one backend call at most.                             *)
LastResortDone(r) ==
  /\ Len(RootCalls(r, "last")) = 1
  /\ LET c == RootCalls(r, "last")[1]
     IN  /\ c.result = "returned"
         /\ OnPage(c.node.id)
         /\ InLog(r, Ev("focus", c.node.id, None, "node"))

C5_OneLastResort ==
  \A r \in Reqs :
    /\ fetches[r] <= 1
    /\ Len(RootCalls(r, "last")) <= 1
    /\ InLog(r, Critical) => ctx[r] = "last" /\ pc[r] = "done"
    /\ ctx[r] = "last" =>
         /\ InLog(r, Error)
         /\ Len(RootCalls(r, "last")) = 1
         /\ RootCalls(r, "last")[1].element.name = "Fallback Design"
         /\ RootCalls(r, "last")[1].element.type = "frame"
         /\ \A k \in DOMAIN calls[r] :
              calls[r][k].ctx = "last" => calls[r][k].root = 1
         /\ Len(SelectSeq(log[r], LAMBDA e : e.op = "focus" /\ e.arg = "node")) <= 1
         /\ \A i \in DOMAIN log[r] :
              (log[r][i].op = "focus" /\ log[r][i].arg = "node") =>
                log[r][i].id = RootCalls(r, "last")[1].node.id
         /\ pc[r] = "done" => (InLog(r, Critical) <=> ~LastResortDone(r))
    /\ pc[r] = "done" => stack[r] = <<>> /\ ~ENABLED Step(r)

\* the last resort succeeded after the server sent a body without elements
C5_Witness ==
  \E r \in Reqs :
    /\ pc[r] = "done" /\ ctx[r] = "last"
    /\ "malformed" \in faults[r]
    /\ LastResortDone(r)
    /\ ~InLog(r, Critical)
    /\ viewport = <<RootCalls(r, "last")[1].node.id>>

----------------------------------------------------------------------------
(* C6: a root element whose type is not frame is constructed but its node   *)
(* is never on the page; whatever a request puts on the page is the node of *)
(* a frame-typed root.                                                      *)
C6_NonFrameRootNotInserted ==
  \A r \in Reqs :
    /\ \A k \in DOMAIN calls[r] :
         (calls[r][k].depth = 1 /\ calls[r][k].element.type # "frame") =>
           /\ calls[r][k].node.id = <<r, k>>
           /\ ~OnPage(calls[r][k].node.id)
    /\ \A i \in DOMAIN Inserted(r) :
         \E k \in DOMAIN calls[r] :
           /\ calls[r][k].depth = 1
           /\ calls[r][k].element.type = "frame"
           /\ calls[r][k].node.id = Inserted(r)[i].id

\* an ellipse root was rendered, the request ended in success, and the
\* ellipse is not on the page while a frame of the same request is
C6_Witness ==
  \E r \in Reqs :
    /\ pc[r] = "done" /\ InLog(r, Success)
    /\ Len(Inserted(r)) >= 1
    /\ \E k \in DOMAIN calls[r] :
         /\ calls[r][k].depth = 1
         /\ calls[r][k].element.type = "ellipse"
         /\ calls[r][k].result = "returned"
         /\ calls[r][k].node.type = "ELLIPSE"
         /\ ~OnPage(calls[r][k].node.id)

----------------------------------------------------------------------------
(* C7: for every text node, characters and fontSize are assigned only after *)
(* the Regular font load of that node succeeded and fontName only after its *)
(* Bold font load succeeded; a node whose Regular load is rejected is       *)
(* assigned no character or font property.                                  *)
Before(r, event, i) == \E j \in 1..(i - 1) : log[r][j] = event

FontAssignments == {"setCharacters", "setFontSize", "setFontName"}

C7_FontLoadedBeforeAssignment ==
  \A r \in Reqs :
    /\ \A i \in DOMAIN log[r] :
         LET e == log[r][i]
         IN  /\ e.op \in {"setCharacters", "setFontSize"} =>
                  Before(r, Ev("fontLoaded", e.id, None, "Regular"), i)
             /\ e.op = "setFontName" =>
                  Before(r, Ev("fontLoaded", e.id, None, "Bold"), i)
             /\ (e.op = "fontRejected" /\ e.arg = "Regular") =>
                  \A j \in DOMAIN log[r] :
                    log[r][j].id = e.id => log[r][j].op \notin FontAssignments
    /\ \A k \in DOMAIN calls[r] :
         LET n == calls[r][k].node
         IN  /\ ~InLog(r, Ev("fontLoaded", n.id, None, "Regular")) =>
                  n.characters = "" /\ n.fontSize = 12 /\ n.fontName = Regular
             /\ ~InLog(r, Ev("fontLoaded", n.id, None, "Bold")) =>
                  n.fontName = Regular

\* one text node was given its characters, its fontSize and the Bold
\* fontName, and the Regular load of another was rejected
C7_Witness ==
  \E r \in Reqs :
    \E k, m \in DOMAIN calls[r] :
      /\ calls[r][k].node.fontName = Bold
      /\ calls[r][k].node.characters = "Plans"
      /\ calls[r][k].node.fontSize = 18
      /\ InLog(r, Ev("fontRejected", calls[r][m].node.id, None, "Regular"))

----------------------------------------------------------------------------
(* C8: a text element with fontWeight > 500 whose Bold load is rejected     *)
(* does not fail: its node carries the element's text and fontSize, keeps   *)
(* the Regular style and receives resize, name, x, y and fills; with        *)
(* fontWeight absent or <= 500 no Bold load is attempted.                   *)
C8_BoldRejectionKeepsRegular ==
  \A r \in Reqs : \A k \in DOMAIN calls[r] :
    LET c == calls[r][k]
        e == c.element
        n == c.node
    IN  /\ InLog(r, Ev("fontRejected", n.id, None, "Bold")) =>
             /\ e.type = "text" /\ e.fontWeight > BoldAbove
             /\ c.result # "threw"
             /\ n.type = "TEXT"
             /\ n.characters = (IF Has(e, "text") THEN e.text ELSE "")
             /\ Truthy(e, "fontSize") => n.fontSize = e.fontSize
             /\ n.fontName = Regular
             /\ n.width = e.width /\ n.height = e.height
             /\ n.name = e.name /\ n.x = e.x /\ n.y = e.y
             /\ Has(e, "fills") =>
                  /\ Len(n.fills) = Len(e.fills)
                  /\ \A i \in DOMAIN n.fills :
                       n.fills[i].type = "SOLID" /\ n.fills[i].color = e.fills[i].color
             /\ InLog(r, Ev("resize", n.id, None, ""))
             /\ InLog(r, Ev("setName", n.id, None, e.name))
        /\ InLog(r, Ev("loadFont", n.id, None, "Bold")) =>
             Has(e, "fontWeight") /\ e.fontWeight > BoldAbove
        /\ (e.type = "text" /\ (~Has(e, "fontWeight") \/ e.fontWeight <= BoldAbove)) =>
             /\ ~InLog(r, Ev("loadFont", n.id, None, "Bold"))
             /\ n.fontName = Regular

\* the Title of the fallback design (fontWeight 600) was rendered without
\* the Bold font and went into its frame, next to a Description
\* (fontWeight 400) rendered without a Bold load
C8_Witness ==
  \E r \in Reqs :
    \E k, m \in DOMAIN calls[r] :
      /\ calls[r][k].element.name = "Title"
      /\ WantsBold(calls[r][k].element)
      /\ calls[r][k].element.fontWeight = 600
      /\ InLog(r, Ev("fontRejected", calls[r][k].node.id, None, "Bold"))
      /\ calls[r][k].result = "returned"
      /\ calls[r][k].node.characters = "AI Design Generated"
      /\ calls[r][k].node.fontSize = 24
      /\ calls[r][m].element.name = "Description"
      /\ calls[r][m].result = "returned"

----------------------------------------------------------------------------
(* C9 as stated: the text of the Description of createFallbackDesign(p) is  *)
(* at most 103 characters long and is p itself when len(p) <= 100.          *)
IsDescription(c) == c.element.name = "Description" /\ c.element.type = "text"

C9_DescriptionIsPrompt ==
  \A r \in Reqs : \A k \in DOMAIN calls[r] :
    IsDescription(calls[r][k]) =>
      LET t == calls[r][k].element.text
          p == msg[r].text
      IN  /\ Len(t) <= TruncateAt + 3
          /\ Len(p) <= TruncateAt => t = p

(* C9 as amended: the text of the Description is the shown prompt between   *)
(* the prefix   Based on: "   and a closing quote; the shown prompt is p    *)
(* itself when len(p) <= 100 and otherwise the first 100 characters of p    *)
(* followed by "...", so it is at most 103 characters long and the text at  *)
(* most 115.  The rendered node carries that text.                          *)
C9_DescriptionQuotesPrompt ==
  \A r \in Reqs : \A k \in DOMAIN calls[r] :
    IsDescription(calls[r][k]) =>
      LET t == calls[r][k].element.text
          p == msg[r].text
          shown == SubSeq(t, 12, Len(t) - 1)
      IN  /\ Len(t) >= 12 /\ Len(t) <= TruncateAt + 15
          /\ SubSeq(t, 1, 11) = "Based on: \""
          /\ SubSeq(t, Len(t), Len(t)) = "\""
          /\ Len(shown) <= TruncateAt + 3
          /\ Len(p) <= TruncateAt => shown = p
          /\ Len(p) > TruncateAt =>
               /\ SubSeq(shown, 1, TruncateAt) = SubSeq(p, 1, TruncateAt)
               /\ SubSeq(shown, TruncateAt + 1, Len(shown)) = "..."
          /\ calls[r][k].result = "returned" => calls[r][k].node.characters = t

\* a Description was rendered for a prompt longer than 100 characters
C9_Witness ==
  \E r \in Reqs : \E k \in DOMAIN calls[r] :
    /\ IsDescription(calls[r][k])
    /\ Len(msg[r].text) > TruncateAt
    /\ calls[r][k].result = "returned"
    /\ Len(calls[r][k].node.characters) = TruncateAt + 15

----------------------------------------------------------------------------
(* C10: with the backend unavailable and every host operation succeeding,   *)
(* the request ends with one node of its own on the page, a frame named     *)
(* "Fallback Design" with 3 children in the order title text, description   *)
(* text, content rectangle, notifies success and notifies neither the error *)
(* nor the critical notice.                                                 *)
Contains(text, part) ==
  \E i \in 1..(Len(text) - Len(part) + 1) : SubSeq(text, i, i + Len(part) - 1) = part

\* the prompt as the description shows it
Shown(p) == IF Len(p) > TruncateAt THEN SubSeq(p, 1, TruncateAt) \o "..." ELSE p

BackendDown(r) == faults[r] # {} /\ faults[r] \subseteq AcquireFaults

FallbackFrameOnly(r, described) ==
  /\ Len(Inserted(r)) = 1
  /\ LET f == Inserted(r)[1]
     IN  /\ f.type = "FRAME" /\ f.name = "Fallback Design"
         /\ Len(f.children) = 3
         /\ f.children[1].type = "TEXT" /\ f.children[1].name = "Title"
         /\ f.children[1].characters = "AI Design Generated"
         /\ f.children[2].type = "TEXT" /\ f.children[2].name = "Description"
         /\ Contains(f.children[2].characters, described)
         /\ f.children[3].type = "RECTANGLE" /\ f.children[3].name = "Content Area"
  /\ InLog(r, Success)
  /\ ~InLog(r, Error)
  /\ ~InLog(r, Critical)

(* C10 as stated: the description text contains the prompt. *)
C10_FallbackShowsPrompt ==
  \A r \in Reqs :
    (pc[r] = "done" /\ BackendDown(r)) => FallbackFrameOnly(r, msg[r].text)

(* C10 as amended: the description text contains the prompt when the prompt *)
(* has at most 100 characters, and otherwise its first 100 characters       *)
(* followed by "...".                                                       *)
C10_FallbackShowsShownPrompt ==
  \A r \in Reqs :
    (pc[r] = "done" /\ BackendDown(r)) => FallbackFrameOnly(r, Shown(msg[r].text))

\* the scenario of the specification: the fetch was rejected for the prompt
\* "Create a modern login form" and the request ended with the fallback frame
C10_Witness ==
  \E r \in Reqs :
    /\ pc[r] = "done"
    /\ faults[r] = {"fetch"}
    /\ msg[r].text = "Create a modern login form"
    /\ FallbackFrameOnly(r, "Create a modern login form")
    /\ viewport = Ids(page)

----------------------------------------------------------------------------
(* C14: rendering a frame with N children none of which fails returns a     *)
(* frame node with exactly N children, the i-th child node being the        *)
(* rendering of the i-th child element, at every nesting depth.             *)
RECURSIVE IsRenderingOf(_, _)
IsRenderingOf(n, e) ==
  /\ n.name = e.name /\ n.x = e.x /\ n.y = e.y
  /\ n.width = e.width /\ n.height = e.height
  /\ e.type = "frame" => n.type = "FRAME"
  /\ e.type = "text" =>
       n.type = "TEXT" /\ n.characters = (IF Has(e, "text") THEN e.text ELSE "")
  /\ e.type = "rectangle" => n.type = "RECTANGLE"
  /\ e.type = "ellipse" => n.type = "ELLIPSE"
  /\ IF e.type = "frame" /\ Has(e, "children")
       THEN /\ Len(n.children) = Len(e.children)
            /\ \A i \in DOMAIN e.children : IsRenderingOf(n.children[i], e.children[i])
       ELSE n.children = <<>>

C14_ChildrenInOrder ==
  \A r \in Reqs : \A k \in DOMAIN calls[r] :
    (calls[r][k].element.type = "frame" /\ calls[r][k].result = "returned") =>
      IsRenderingOf(calls[r][k].node, calls[r][k].element)

\* the Card frame was rendered: three children, the third a frame with a
\* child of its own
C14_Witness ==
  \E r \in Reqs : \E k \in DOMAIN calls[r] :
    /\ calls[r][k].element.name = "Card"
    /\ calls[r][k].result = "returned"
    /\ Len(calls[r][k].node.children) = 3
    /\ calls[r][k].node.children[1].name = "Price"
    /\ calls[r][k].node.children[3].name = "Row"
    /\ Len(calls[r][k].node.children[3].children) = 1

----------------------------------------------------------------------------
(* C15 as stated: a child's node is appended to its parent frame node,      *)
(* which is already constructed, before the renderer goes into the child's  *)
(* own children: whenever c was appended to p and d to c, c was appended to *)
(* p before d was created.                                                  *)
Created(id) == Ev("createNode", id, None, "FRAME")

IsAppend(e) == e.op = "appendChild"

C15_AppendedBeforeDescending ==
  \A r \in Reqs : \A i, j, k \in DOMAIN log[r] :
    (/\ IsAppend(log[r][i])
     /\ IsAppend(log[r][j]) /\ log[r][j].to = log[r][i].id
     /\ log[r][k].op = "createNode" /\ log[r][k].id = log[r][j].id) =>
      /\ Before(r, Created(log[r][i].to), i)
      /\ i < k

(* C15 as amended: a child's node is appended to its parent frame node,     *)
(* which is already constructed, after the renderer has rendered the        *)
(* child's own children and appended each of them to the child, and before  *)
(* it renders the next sibling.                                             *)
C15_AppendedAfterSubtree ==
  \A r \in Reqs : \A i \in DOMAIN log[r] :
    IsAppend(log[r][i]) =>
      LET c == log[r][i].id
          p == log[r][i].to
      IN  /\ Before(r, Created(p), i)
          /\ \E m \in 1..(i - 1) : log[r][m].op = "setName" /\ log[r][m].id = p
          /\ \A j \in DOMAIN log[r] :
               (IsAppend(log[r][j]) /\ log[r][j].to = c) => j < i
          /\ \A k \in DOMAIN calls[r] :
               (calls[r][k].node.id = c /\ RendersChildren(calls[r][k].element)) =>
                 Len(SelectSeq(log[r], LAMBDA e : IsAppend(e) /\ e.to = c))
                   = Len(calls[r][k].element.children)
          /\ \A j, k \in DOMAIN log[r] :
               (/\ j > i /\ IsAppend(log[r][j]) /\ log[r][j].to = p
                /\ log[r][k].op = "createNode" /\ log[r][k].id = log[r][j].id) =>
                 k > i

\* the Row frame went into the Card frame after its Label went into it
C15_Witness ==
  \E r \in Reqs : \E i, j \in DOMAIN log[r] : \E k, m \in DOMAIN calls[r] :
    /\ calls[r][k].element.name = "Row" /\ calls[r][m].element.name = "Label"
    /\ IsAppend(log[r][i]) /\ log[r][i].id = calls[r][k].node.id
    /\ IsAppend(log[r][j]) /\ log[r][j].id = calls[r][m].node.id
    /\ log[r][j].to = calls[r][k].node.id
    /\ j < i

----------------------------------------------------------------------------
(* C16: rendering an element whose type is not frame ignores its children:  *)
(* no child is rendered, none is appended to the node, and the children     *)
(* cause no error.                                                          *)
C16_ChildrenOfNonFrameIgnored ==
  \A r \in Reqs : \A k \in DOMAIN calls[r] :
    LET c == calls[r][k]
    IN  (c.element.type # "frame" /\ Has(c.element, "children")) =>
          /\ c.node.children = <<>>
          /\ \A i \in DOMAIN log[r] : IsAppend(log[r][i]) => log[r][i].to # c.node.id
          /\ (k + 1) \in DOMAIN calls[r] => calls[r][k + 1].depth <= c.depth
          /\ c.element.type # "text" => c.result # "threw"
          /\ (c.result = "returned" /\ c.depth > 1) =>
               \E i \in DOMAIN log[r] : IsAppend(log[r][i]) /\ log[r][i].id = c.node.id

\* the Avatar ellipse, which carries a child, was rendered into the Card
\* frame, and the next call rendered its sibling Row
C16_Witness ==
  \E r \in Reqs : \E k \in DOMAIN calls[r] :
    /\ calls[r][k].element.name = "Avatar"
    /\ Len(calls[r][k].element.children) = 1
    /\ calls[r][k].result = "returned"
    /\ calls[r][k].node.type = "ELLIPSE"
    /\ (k + 1) \in DOMAIN calls[r]
    /\ calls[r][k + 1].element.name = "Row"

----------------------------------------------------------------------------
(* C17: rendering an element whose type is outside {frame, rectangle, text, *)
(* ellipse, line} does not fail: it yields a rectangle node resized to      *)
(* (width, height) that receives name, x, y and fills as a rectangle        *)
(* element would.                                                           *)
KnownTypes == {"frame", "rectangle", "text", "ellipse", "line"}

C17_UnknownTypeIsRectangle ==
  \A r \in Reqs : \A k \in DOMAIN calls[r] :
    LET c == calls[r][k]
        e == c.element
        n == c.node
    IN  e.type \notin KnownTypes =>
          /\ c.result # "threw"
          /\ n.type = "RECTANGLE"
          /\ n.width = e.width /\ n.height = e.height
          /\ n.name = e.name /\ n.x = e.x /\ n.y = e.y
          /\ Has(e, "fills") =>
               /\ Len(n.fills) = Len(e.fills)
               /\ \A i \in DOMAIN n.fills :
                    n.fills[i].type = "SOLID" /\ n.fills[i].color = e.fills[i].color
          /\ n.characters = "" /\ n.children = <<>>
          /\ InLog(r, Ev("createNode", n.id, None, "RECTANGLE"))
          /\ InLog(r, Ev("resize", n.id, None, ""))
          /\ InLog(r, Ev("setName", n.id, None, e.name))
          /\ InLog(r, Ev("setFills", n.id, None, "")) <=> Has(e, "fills")

\* the Star element of type "polygon" was rendered
C17_Witness ==
  \E r \in Reqs : \E k \in DOMAIN calls[r] :
    /\ calls[r][k].element.type = "polygon"
    /\ calls[r][k].result = "returned"
    /\ calls[r][k].node.type = "RECTANGLE"
    /\ calls[r][k].node.name = "Star"
    /\ calls[r][k].node.fills = <<>>

----------------------------------------------------------------------------
(* C18: on the main path the viewport focus is requested once, after every  *)
(* root element of the resolved specification has been attempted and right  *)
(* before the success notification, also when no element was rendered; its  *)
(* target is the list of the top-level nodes then on the page.              *)
IsPageFocus(e) == e.op = "focus" /\ e.arg = "page"

----------------------------------------------------------------------------
(* Vocabulary of the server's properties *)

Answered == server.pc = "done"

\* the request body carried a prompt that is a non-empty string
HasPrompt == server.body.json = "object" /\ Accepts(server.body.prompt)

\* the request body carried no prompt, or one that is no string
LacksPrompt ==
  \/ server.body.json # "object"
  \/ server.body.prompt.kind # "string"

\* c with nothing but fences around it
Fenced(c) == {open \o c \o Fence : open \in {FenceJson, Fence}}

----------------------------------------------------------------------------
(* C11: for a JSON text c that parses, a backend output that is c enclosed *)
(* in a fence (the json-marked or a plain opening fence, then c, then a    *)
(* closing fence) gives the parse result that the output c alone gives:    *)
(* the request is answered with what c denotes.  (c is JSON text: a form   *)
(* feed before the document is trimmed from the bare output but is no JSON *)
(* white space, so such a c is none.)                                      *)
C11_FencedParsesAlike ==
  \A c \in {content \o pad : content \in Contents, pad \in {<<>>, Chars("\n")}} :
    (Answered /\ server.raw \in Fenced(c) /\ JsonParse(c).ok) =>
       LET alone == ParseOutput(c)
       IN  /\ ParseOutput(server.raw) = alone
           /\ alone.ok
           /\ server.response = Generated(alone.value)
           /\ server.failure = ""

\* the fenced document of the system prompt's form, on lines of its own
C11_Witness ==
  /\ Answered
  /\ server.raw = FenceJson \o Chars("\n") \o FrameDocument \o Chars("\n") \o Fence
  /\ server.response = Generated(Denotes(FrameDocument))

----------------------------------------------------------------------------
(* C12: the cleaning removes at most one leading fence marker and at most  *)
(* one trailing fence from the trimmed output, and an output with a second *)
(* leading fence directly after the first (and more text after it) keeps   *)
(* that fence and fails to parse.                                          *)
C12_AtMostOneLeadingFence ==
  Answered /\ server.backendCalls = 1 /\ server.failure # "backend" =>
    LET trimmed == Strip(server.raw, TrimSpace)
        cleaned == Clean(server.raw)
    IN  /\ \E open \in {<<>>, FenceJson, Fence}, close \in {<<>>, Fence} :
             trimmed = open \o cleaned \o close
        /\ \A open \in {FenceJson, Fence} :
             (StartsWith(trimmed, open \o Fence) /\ trimmed # open \o Fence) =>
               /\ StartsWith(cleaned, Fence)
               /\ server.failure = "parse"

----------------------------------------------------------------------------
(* C13: a POST whose body carries a non-empty string prompt is answered    *)
(* with status 200 and success true, the data being the parsed             *)
(* specification or, after any failure of the generation (no API key, the  *)
(* backend call failing, its output not parsing), the fallback design for  *)
(* the prompt; a POST without a prompt or with one that is no string is    *)
(* answered with status 400 and an error body, with no backend call.       *)
C13_PostAnswers ==
  Answered =>
    /\ HasPrompt =>
         /\ server.response.status = 200
         /\ server.response.body.success
         /\ server.backendCalls <= 1
         /\ server.response.body.data =
              IF server.failure = ""
                THEN ParseOutput(server.raw).value
                ELSE createFallbackDesign(server.body.prompt.text)
    /\ LacksPrompt =>
         /\ server.response.status = 400
         /\ DOMAIN server.response.body = {"error"}
         /\ server.backendCalls = 0

----------------------------------------------------------------------------
(* C19: when submit-text requests overlap, each request renders only its   *)
(* own specification (every createFigmaElement call of a request is for an *)
(* element of the specification that request resolved, or of the fallback  *)
(* design for its own prompt in the last resort, the root elements once    *)
(* each and in order), every frame root that rendered is on the page       *)
(* exactly once, and the frames of one request are on the page in the      *)
(* order of that request's specification.                                  *)
RECURSIVE Within(_, _)
Within(e, tree) ==
  \/ e = tree
  \/ /\ Has(tree, "children")
     /\ \E i \in DOMAIN tree.children : Within(e, tree.children[i])

\* the specification a call of request r renders from
OwnSpecification(r, c) ==
  IF c.ctx = "main" THEN designResponse[r] ELSE createFallbackDesign(msg[r].text)

C19_OverlappingRequestsIsolated ==
  /\ \A r \in Reqs :
       /\ \A k \in DOMAIN calls[r] :
            LET c == calls[r][k]
                own == OwnSpecification(r, c).elements
            IN  /\ Iterable(OwnSpecification(r, c))
                /\ c.root \in DOMAIN own
                /\ Within(c.element, own[c.root])
                /\ c.depth = 1 => c.element = own[c.root]
                /\ c.node.id = <<r, k>>
       /\ \A i \in DOMAIN RootCalls(r, "main") : RootCalls(r, "main")[i].root = i
       /\ InsertedByLoop(r) = RenderedFrames(r)
       /\ \A i \in DOMAIN RenderedFrames(r) :
            Cardinality({j \in DOMAIN page : page[j].id = RenderedFrames(r)[i].id}) = 1
  /\ \A i, j \in DOMAIN page : page[i].id = page[j].id => i = j
  /\ \A i \in DOMAIN page :
       \E r \in Reqs : \E k \in DOMAIN calls[r] :
         /\ calls[r][k].depth = 1 /\ calls[r][k].result = "returned"
         /\ calls[r][k].element.type = "frame"
         /\ page[i] = calls[r][k].node

\* both requests ended with success, and the frame of the second request
\* stands on the page between the two frames of the first
C19_Witness ==
  /\ \A r \in {1, 2} : pc[r] = "done" /\ InLog(r, Success)
  /\ designResponse[1] = Mixed /\ designResponse[2] = LoginForm
  /\ Len(page) = 3
  /\ page[1].name = "Card" /\ page[2].name = "Login Form" /\ page[3].name = "Footer"
  /\ page[1].id[1] = 1 /\ page[2].id[1] = 2 /\ page[3].id[1] = 1

----------------------------------------------------------------------------
(* C20: provided every awaited call settles, a submitted request comes to  *)
(* its end, after one backend call at most, in exactly one of three        *)
(* outcomes: the success notification alone; the error notification, then  *)
(* a last resort that rendered, inserted and focused the fallback frame,   *)
(* and no critical notification; or the error notification, then the       *)
(* critical one.  Success and error are never both notified.               *)
Position(r, event) == CHOOSE i \in DOMAIN log[r] : log[r][i] = event

SuccessOnly(r) ==
  InLog(r, Success) /\ ~InLog(r, Error) /\ ~InLog(r, Critical)

ErrorThenLastResort(r) ==
  /\ InLog(r, Error) /\ ~InLog(r, Success) /\ ~InLog(r, Critical)
  /\ LastResortDone(r)
  /\ Position(r, Error)
       < Position(r, Ev("focus", RootCalls(r, "last")[1].node.id, None, "node"))

ErrorThenCritical(r) ==
  /\ InLog(r, Error) /\ ~InLog(r, Success) /\ InLog(r, Critical)
  /\ Position(r, Error) < Position(r, Critical)
  /\ ~LastResortDone(r)

Outcomes(r) ==
  {o \in {"success", "last resort", "critical"} :
     \/ o = "success" /\ SuccessOnly(r)
     \/ o = "last resort" /\ ErrorThenLastResort(r)
     \/ o = "critical" /\ ErrorThenCritical(r)}

C20_EndsInOneOutcome ==
  /\ [](\A r \in Reqs :
          /\ fetches[r] <= 1
          /\ ~(InLog(r, Success) /\ InLog(r, Error))
          /\ \A n \in {Success, Error, Critical} :
               Len(SelectSeq(log[r], LAMBDA e : e = n)) <= 1
          /\ pc[r] = "done" => Cardinality(Outcomes(r)) = 1
          /\ pc[r] # "done" => ~InLog(r, Success) /\ ~InLog(r, Critical))
  /\ \A r \in Reqs : (pc[r] = "fetch") ~> (pc[r] = "done")

\* the focus of the main path was refused after a specification was
\* rendered, and the last resort then succeeded
C20_Witness ==
  \E r \in Reqs :
    /\ pc[r] = "done" /\ fetches[r] = 1
    /\ faults[r] = {"focus"}
    /\ Outcomes(r) = {"last resort"}
    /\ Len(RootCalls(r, "main")) > 0

====
